---- MODULE Spec2Model ----
(***************************************************************************)
(* LoginPage page object (pages/LoginPage.js), the fixture constants of    *)
(* utils/testData.js and the login scenarios of the test suite, as a state *)
(* machine over a browser page.                                            *)
(*                                                                         *)
(* Texts are sequences of words and URLs sequences of segments, so that    *)
(* "contains", the URL glob and URL equality are computed, not assumed.    *)
(* Time is in milliseconds.  A page carries, for each condition a wait of  *)
(* the page object can block on, the time after which it becomes true      *)
(* (0: true now, Never: it does not become true).                          *)
(***************************************************************************)
EXTENDS Integers, Sequences, FiniteSets, TLC

VARIABLES page, prev, last, cleared, served, fresh, attempt, tpage, pc, verdict

vars == <<page, prev, last, cleared, served, fresh, attempt, tpage, pc, verdict>>

freeVars == <<page, prev, last, cleared, served, fresh, attempt>>

suiteVars == <<tpage, pc, verdict>>

(***************************** utils/testData.js ***************************)

VALID_USER == [username |-> "standard_user", password |-> "secret_sauce"]

LOCKED_USER == [username |-> "locked_out_user", password |-> "secret_sauce"]

INVALID_USER == [username |-> "invalid_user", password |-> "wrong_password"]

INVALID_PASSWORD == "wrong_password"

ERROR_MESSAGES_typo ==
  [LOCKED_USER |-> <<"Epic", "sadface:", "Sorry,", "this", "user", "is", "locked", "out.">>,
   INVALID_CREDENTIALS |-> <<"Epic", "sadface:", "Username", "or", "password", "do", "not",
                             "match", "any", "user", "in", "this", "service">>,
   MISSING_USERNAME |-> <<"Epic", "sadface:", "Username", "required">>,
   MISSING_PASSWORD |-> <<"Epic", "sadface:", "Password", "required">>]

ERROR_MESSAGES ==
  [LOCKED_USER |-> <<"Epic", "sadface:", "Sorry,", "this", "user", "has", "been", "locked",
                     "out.">>,
   INVALID_CREDENTIALS |-> <<"Epic", "sadface:", "Username", "and", "password", "do", "not",
                             "match", "any", "user", "in", "this", "service">>,
   MISSING_USERNAME |-> <<"Epic", "sadface:", "Username", "is", "required">>,
   MISSING_PASSWORD |-> <<"Epic", "sadface:", "Password", "is", "required">>]

(* String.prototype.includes / expect(...).toContain on a string: the needle is a
   contiguous part of the text. *)
Contains(text, needle) ==
  \E i \in 0..(Len(text) - Len(needle)) : SubSeq(text, i + 1, i + Len(needle)) = needle

(********************************* URLs ************************************)

BLANK_URL == <<"about:blank">>

LOGIN_URL == <<"https://www.saucedemo.com", "/">>

INDEX_URL == <<"https://www.saucedemo.com", "/", "index.html">>

INVENTORY_URL == <<"https://www.saucedemo.com", "/", "inventory.html">>

(* The glob '**/inventory.html' of page.waitForURL: any URL whose last segment is
   inventory.html, after a slash. *)
MatchesInventoryGlob(url) ==
  /\ Len(url) >= 2
  /\ url[Len(url)] = "inventory.html"
  /\ url[Len(url) - 1] = "/"

(******************************** waits ************************************)

ERROR_PROBE_TIMEOUT == 3000

URL_TIMEOUT == 5000

LOGO_TIMEOUT == 3000

DefaultTimeout == 30000

Never == 0 - 1

Within(d, t) == d # Never /\ d <= t

Sub(d, t) == IF d = Never THEN Never ELSE IF d <= t THEN 0 ELSE d - t

(* The page t milliseconds later: a pending navigation that falls due has happened
   (the login form is gone), and every pending render is t closer. *)
Elapse(p, t) ==
  IF Within(p.navIn, t)
  THEN [p EXCEPT !.url = INVENTORY_URL, !.navIn = Never, !.username = "", !.password = "",
                 !.logoIn = Sub(@, t), !.errIn = Sub(@, t)]
  ELSE [p EXCEPT !.navIn = Sub(@, t), !.logoIn = Sub(@, t), !.errIn = Sub(@, t)]

(* What a call of the page object gives back: the page after it, the value it
   returns (a boolean or a text), the error it throws ("none": it returns), and
   whether it clicked the dismiss control. *)
R(p, b, text, exc, clicked) ==
  [page |-> p, b |-> b, text |-> text, exc |-> exc, clicked |-> clicked]

Returns(p) == R(p, FALSE, <<>>, "none", FALSE)

Throws(p, exc) == R(p, FALSE, <<>>, exc, FALSE)

(* locator.waitFor({state: 'visible', timeout}) on the error banner or the logo. *)
WaitForVisible(p, what, timeout) ==
  LET d == IF what = "error" THEN p.errIn ELSE p.logoIn IN
  IF p.closed THEN Throws(p, "TargetClosedError")
  ELSE IF Within(d, timeout) THEN Returns(Elapse(p, d))
  ELSE Throws(Elapse(p, timeout), "TimeoutError")

(* page.waitForURL('**/inventory.html', {timeout}). *)
WaitForURL(p, timeout) ==
  IF p.closed THEN Throws(p, "TargetClosedError")
  ELSE IF MatchesInventoryGlob(p.url) THEN Returns(p)
  ELSE IF Within(p.navIn, timeout) THEN Returns(Elapse(p, p.navIn))
  ELSE Throws(Elapse(p, timeout), "TimeoutError")

(************************* application under test **************************)

Usernames == {"", "standard_user", "locked_out_user", "invalid_user"}

Passwords == {"", "secret_sauce", "wrong_password"}

(* The login form (#user-name, #password, #login-button) is on the login page. *)
FormPresent(p) == p.url = LOGIN_URL \/ p.url = INDEX_URL

AppMessage ==
  [LOCKED_USER |-> <<"Epic", "sadface:", "Sorry,", "this", "user", "has", "been", "locked",
                     "out.">>,
   INVALID_CREDENTIALS |-> <<"Epic", "sadface:", "Username", "and", "password", "do", "not",
                             "match", "any", "user", "in", "this", "service">>,
   MISSING_USERNAME |-> <<"Epic", "sadface:", "Username", "is", "required">>,
   MISSING_PASSWORD |-> <<"Epic", "sadface:", "Password", "is", "required">>]

(* What submitting (u, pw) may lead to, as a tuple of alternatives.  Where the
   scenarios do not say which of two errors is shown, either may be. *)
AppOutcomes(u, pw) ==
  IF u = "" /\ pw = "" THEN <<"MISSING_USERNAME", "MISSING_PASSWORD">>
  ELSE IF u = "" THEN <<"MISSING_USERNAME">>
  ELSE IF pw = "" THEN <<"MISSING_PASSWORD">>
  ELSE IF u = "standard_user" /\ pw = "secret_sauce" THEN <<"SUCCESS">>
  ELSE IF u = "locked_out_user" /\ pw = "secret_sauce" THEN <<"LOCKED_USER">>
  ELSE IF u = "locked_out_user" THEN <<"INVALID_CREDENTIALS", "LOCKED_USER">>
  ELSE <<"INVALID_CREDENTIALS">>

(* The application's choice among the alternatives. *)
Alternatives == {1, 2}

AppOutcome(u, pw, o) ==
  LET alts == AppOutcomes(u, pw) IN alts[IF o <= Len(alts) THEN o ELSE 1]

(* The submit handler, on what the two fields hold: on success the inventory page
   with its logo, at once; on failure the error banner, at once, and no
   navigation. *)
AppSubmit(p, o) ==
  IF AppOutcome(p.username, p.password, o) = "SUCCESS"
  THEN [p EXCEPT !.url = INVENTORY_URL, !.navIn = Never, !.logoIn = 0, !.errIn = Never,
                 !.errText = <<>>, !.username = "", !.password = "",
                 !.submitted = <<p.username, p.password>>]
  ELSE [p EXCEPT !.errIn = 0, !.errText = AppMessage[AppOutcome(p.username, p.password, o)],
                 !.submitted = <<p.username, p.password>>]

(* The dismiss control (.error-button) of the banner removes the banner. *)
AppDismiss(p) == [p EXCEPT !.errIn = Never, !.errText = <<>>]

(* The login page as the application serves it. *)
FreshLoginPage ==
  [url |-> LOGIN_URL, navIn |-> Never, logoIn |-> Never, errIn |-> Never, errText |-> <<>>,
   username |-> "", password |-> "", submitted |-> <<>>, closed |-> FALSE]

(**************************** driver primitives ****************************)

(* locator.fill(value): waits for the field, then replaces what it holds. *)
Fill(p, field, value) ==
  IF p.closed THEN Throws(p, "TargetClosedError")
  ELSE IF FormPresent(p) THEN Returns([p EXCEPT ![field] = value])
  ELSE Throws(Elapse(p, DefaultTimeout), "TimeoutError")

(* locator.clear(): fill with the empty string. *)
Clear(p, field) == Fill(p, field, "")

(* loginButton.click(): waits for the button, clicks, and the application handles
   the submission with outcome o. *)
ClickLogin(p, o) ==
  IF p.closed THEN Throws(p, "TargetClosedError")
  ELSE IF FormPresent(p) THEN Returns(AppSubmit(p, o))
  ELSE Throws(Elapse(p, DefaultTimeout), "TimeoutError")

(* errorCloseButton.click(): the control is part of the banner. *)
ClickDismiss(p) ==
  IF p.closed THEN Throws(p, "TargetClosedError")
  ELSE IF Within(p.errIn, DefaultTimeout)
  THEN R(AppDismiss(Elapse(p, p.errIn)), FALSE, <<>>, "none", TRUE)
  ELSE Throws(Elapse(p, DefaultTimeout), "TimeoutError")

(******************************* LoginPage *********************************)

goto(p) ==
  IF p.closed THEN Throws(p, "TargetClosedError") ELSE Returns(FreshLoginPage)

login_noClick(p, username, password, o) ==
  LET f1 == Fill(p, "username", username) IN
  IF f1.exc # "none" THEN f1 ELSE Fill(f1.page, "password", password)

login_noPassword(p, username, password, o) ==
  LET f1 == Fill(p, "username", username) IN
  IF f1.exc # "none" THEN f1 ELSE ClickLogin(f1.page, o)

login(p, username, password, o) ==
  LET f1 == Fill(p, "username", username) IN
  IF f1.exc # "none" THEN f1
  ELSE LET f2 == Fill(f1.page, "password", password) IN
       IF f2.exc # "none" THEN f2 ELSE ClickLogin(f2.page, o)

getErrorMessage_swallow(p) ==
  LET w == WaitForVisible(p, "error", DefaultTimeout) IN
  IF w.exc # "none" THEN Returns(w.page)
  ELSE R(w.page, FALSE, w.page.errText, "none", FALSE)

getErrorMessage(p) ==
  LET w == WaitForVisible(p, "error", DefaultTimeout) IN
  IF w.exc # "none" THEN w
  ELSE R(w.page, FALSE, w.page.errText, "none", FALSE)

isErrorVisible_noTimeout(p) ==
  LET w == WaitForVisible(p, "error", 0) IN
  IF w.exc # "none" THEN Returns(w.page)
  ELSE R(w.page, TRUE, <<>>, "none", FALSE)

isErrorVisible_timeoutOnly(p) ==
  LET w == WaitForVisible(p, "error", ERROR_PROBE_TIMEOUT) IN
  IF w.exc = "TimeoutError" THEN Returns(w.page)
  ELSE IF w.exc # "none" THEN w
  ELSE R(w.page, TRUE, <<>>, "none", FALSE)

isErrorVisible(p) ==
  LET w == WaitForVisible(p, "error", ERROR_PROBE_TIMEOUT) IN
  IF w.exc # "none" THEN Returns(w.page)
  ELSE R(w.page, TRUE, <<>>, "none", FALSE)

isLoginSuccessful_urlOnly(p) ==
  LET w1 == WaitForURL(p, URL_TIMEOUT) IN
  IF w1.exc # "none" THEN Returns(w1.page)
  ELSE R(w1.page, TRUE, <<>>, "none", FALSE)

isLoginSuccessful(p) ==
  LET w1 == WaitForURL(p, URL_TIMEOUT) IN
  IF w1.exc # "none" THEN Returns(w1.page)
  ELSE LET w2 == WaitForVisible(w1.page, "logo", LOGO_TIMEOUT) IN
       IF w2.exc # "none" THEN Returns(w2.page)
       ELSE R(w2.page, TRUE, <<>>, "none", FALSE)

isOnLoginPage_indexOnly(p) ==
  R(p, p.url = <<"https://www.saucedemo.com", "/", "index.html">>, <<>>, "none", FALSE)

isOnLoginPage(p) ==
  R(p, \/ p.url = <<"https://www.saucedemo.com", "/">>
       \/ p.url = <<"https://www.saucedemo.com", "/", "index.html">>,
    <<>>, "none", FALSE)

clearInputs(p) ==
  LET c1 == Clear(p, "username") IN
  IF c1.exc # "none" THEN c1 ELSE Clear(c1.page, "password")

closeErrorMessage_always(p) == ClickDismiss(p)

closeErrorMessage(p) ==
  LET v == isErrorVisible(p) IN
  IF v.b THEN ClickDismiss(v.page) ELSE Returns(v.page)

(************************ a session of arbitrary calls *********************)

(* Pending navigations and renders fall due in steps of two seconds, up to
   MaxDelaySteps of them: before, between and after the bounds of the waits. *)
MaxDelaySteps == 3

Delays == {2000 * k : k \in 0..MaxDelaySteps}

Timers == Delays \cup {Never}

StaleUsernames == {"", "invalid_user"}

StalePasswords == {"", "wrong_password"}

(* Any page a LoginPage may be constructed on: any of the URLs, with any pending
   navigation and renders, and anything in the fields of the form if it is there. *)
AnyPage ==
  {p \in [url : {BLANK_URL, LOGIN_URL, INDEX_URL, INVENTORY_URL}, navIn : Timers,
          logoIn : Timers, errIn : Timers,
          errText : {<<>>, <<"Oops">>},
          username : StaleUsernames, password : StalePasswords, submitted : {<<>>},
          closed : {FALSE}] :
     /\ p.navIn # 0
     /\ (p.errIn = Never) = (p.errText = <<>>)
     /\ ~FormPresent(p) => p.username = "" /\ p.password = ""
     /\ MatchesInventoryGlob(p.url) => p.navIn = Never}

NoCall == [op |-> "none", username |-> "", password |-> "", afterClear |-> FALSE,
           b |-> FALSE, text |-> <<>>, exc |-> "none", clicked |-> FALSE]

(* The record of a call: its name and arguments, whether it is a login right
   after a clearInputs() that returned, and what it gave back. *)
Called(op, u, pw, r) ==
  [op |-> op, username |-> u, password |-> pw, afterClear |-> (op = "login" /\ cleared),
   b |-> r.b, text |-> r.text, exc |-> r.exc, clicked |-> r.clicked]

NoAttempt == [username |-> "-", password |-> "-"]

Init ==
  /\ page \in AnyPage
  /\ prev = page
  /\ last = NoCall
  /\ cleared = FALSE
  /\ served = FALSE
  /\ fresh = FALSE
  /\ attempt = NoAttempt
  /\ tpage = <<>>
  /\ pc = <<>>
  /\ verdict = <<>>

(* One call of an observer: it may wait, and changes nothing else. *)
Observe(op, r) ==
  /\ prev' = page
  /\ page' = r.page
  /\ last' = Called(op, "", "", r)
  /\ cleared' = FALSE
  /\ UNCHANGED <<served, fresh, attempt, tpage, pc, verdict>>

Goto ==
  LET r == goto(page) IN
  /\ prev' = page
  /\ page' = r.page
  /\ last' = Called("goto", "", "", r)
  /\ cleared' = FALSE
  /\ served' = (served \/ r.exc = "none")
  /\ fresh' = (r.exc = "none")
  /\ attempt' = NoAttempt
  /\ UNCHANGED suiteVars

Login ==
  \E u \in Usernames, pw \in Passwords, o \in Alternatives :
    LET r == login(page, u, pw, o) IN
    /\ prev' = page
    /\ page' = r.page
    /\ last' = Called("login", u, pw, r)
    /\ cleared' = FALSE
    /\ fresh' = FALSE
    /\ UNCHANGED served
    /\ attempt' = IF fresh /\ r.exc = "none" THEN [username |-> u, password |-> pw]
                  ELSE NoAttempt
    /\ UNCHANGED suiteVars

GetErrorMessage == Observe("getErrorMessage", getErrorMessage(page))

IsErrorVisible == Observe("isErrorVisible", isErrorVisible(page))

IsLoginSuccessful == Observe("isLoginSuccessful", isLoginSuccessful(page))

IsOnLoginPage == Observe("isOnLoginPage", isOnLoginPage(page))

ClearInputs ==
  LET r == clearInputs(page) IN
  /\ prev' = page
  /\ page' = r.page
  /\ last' = Called("clearInputs", "", "", r)
  /\ cleared' = (r.exc = "none")
  /\ fresh' = FALSE
  /\ UNCHANGED served
  /\ attempt' = NoAttempt
  /\ UNCHANGED suiteVars

CloseErrorMessage ==
  LET r == closeErrorMessage(page) IN
  /\ prev' = page
  /\ page' = r.page
  /\ last' = Called("closeErrorMessage", "", "", r)
  /\ cleared' = FALSE
  /\ fresh' = FALSE
  /\ UNCHANGED served
  /\ attempt' = NoAttempt
  /\ UNCHANGED suiteVars

(* The owner of the page (the runner, the browser) closes it. *)
ClosePage ==
  /\ ~page.closed
  /\ prev' = page
  /\ page' = [page EXCEPT !.closed = TRUE]
  /\ last' = [NoCall EXCEPT !.op = "close"]
  /\ cleared' = FALSE
  /\ fresh' = FALSE
  /\ UNCHANGED served
  /\ attempt' = NoAttempt
  /\ UNCHANGED suiteVars

Next ==
  \/ Goto
  \/ Login
  \/ GetErrorMessage
  \/ IsErrorVisible
  \/ IsLoginSuccessful
  \/ IsOnLoginPage
  \/ ClearInputs
  \/ CloseErrorMessage
  \/ ClosePage

Spec == Init /\ [][Next]_vars

(****************************** the scenarios ******************************)

EXPECT_TIMEOUT == 5000

(* A step of a scenario: a call of the page object or an expectation, with the
   arguments of the call and what the scenario expects of it. *)
Step(op, u, pw, b, needle) ==
  [op |-> op, username |-> u, password |-> pw, b |-> b, needle |-> needle]

BeforeEach == Step("goto", "", "", FALSE, <<>>)

(* The eight scenarios of the suite, each after the beforeEach hook. *)
Scripts ==
  << <<BeforeEach,
       Step("login", VALID_USER.username, VALID_USER.password, FALSE, <<>>),
       Step("isLoginSuccessful", "", "", TRUE, <<>>),
       Step("expectUrlContains", "", "", TRUE, <<"inventory.html">>),
       Step("expectTitle", "", "", TRUE, <<"Products">>)>>,
     <<BeforeEach,
       Step("login", INVALID_USER.username, INVALID_USER.password, FALSE, <<>>),
       Step("isErrorVisible", "", "", TRUE, <<>>),
       Step("getErrorMessage", "", "", FALSE, ERROR_MESSAGES.INVALID_CREDENTIALS),
       Step("isOnLoginPage", "", "", TRUE, <<>>)>>,
     <<BeforeEach,
       Step("login", VALID_USER.username, INVALID_PASSWORD, FALSE, <<>>),
       Step("expectErrorVisible", "", "", TRUE, <<>>),
       Step("getErrorMessage", "", "", FALSE, ERROR_MESSAGES.INVALID_CREDENTIALS),
       Step("isLoginSuccessful", "", "", FALSE, <<>>)>>,
     <<BeforeEach,
       Step("login", LOCKED_USER.username, LOCKED_USER.password, FALSE, <<>>),
       Step("expectErrorVisible", "", "", TRUE, <<>>),
       Step("getErrorMessage", "", "", FALSE, ERROR_MESSAGES.LOCKED_USER),
       Step("expectUrlContains", "", "", FALSE, <<"inventory.html">>)>>,
     <<BeforeEach,
       Step("login", "", VALID_USER.password, FALSE, <<>>),
       Step("getErrorMessage", "", "", FALSE, ERROR_MESSAGES.MISSING_USERNAME)>>,
     <<BeforeEach,
       Step("login", VALID_USER.username, "", FALSE, <<>>),
       Step("getErrorMessage", "", "", FALSE, ERROR_MESSAGES.MISSING_PASSWORD)>>,
     <<BeforeEach,
       Step("expectForm", "", "", TRUE, <<>>)>>,
     <<BeforeEach,
       Step("expectForm", "", "", TRUE, <<>>)>> >>

Tests == 1..Len(Scripts)

(* The page fixture: the runner hands every scenario a page of its own. *)
BlankPage == [FreshLoginPage EXCEPT !.url = BLANK_URL]

PageOf_shared(t) == 1

PageOf(t) == t

(* The heading of the inventory page. *)
Title(p) == IF MatchesInventoryGlob(p.url) THEN <<"Products">> ELSE <<>>

(* One step on page p: the page after it, and whether the scenario goes on (the
   call returned and the expectation on it held). *)
RunStep(p, s, o) ==
  LET Out(r, held) == [page |-> r.page, ok |-> r.exc = "none" /\ held] IN
  CASE s.op = "goto" -> Out(goto(p), TRUE)
    [] s.op = "login" -> Out(login(p, s.username, s.password, o), TRUE)
    [] s.op = "isLoginSuccessful" ->
         LET r == isLoginSuccessful(p) IN Out(r, r.b = s.b)
    [] s.op = "isErrorVisible" -> LET r == isErrorVisible(p) IN Out(r, r.b = s.b)
    [] s.op = "isOnLoginPage" -> LET r == isOnLoginPage(p) IN Out(r, r.b = s.b)
    [] s.op = "getErrorMessage" ->
         LET r == getErrorMessage(p) IN Out(r, Contains(r.text, s.needle))
    [] s.op = "expectErrorVisible" -> Out(WaitForVisible(p, "error", EXPECT_TIMEOUT), TRUE)
    [] s.op = "expectUrlContains" ->
         Out(Returns(p), (\E i \in 1..Len(p.url) : <<p.url[i]>> = s.needle) = s.b)
    [] s.op = "expectTitle" -> Out(Returns(p), ~p.closed /\ Title(p) = s.needle)
    [] s.op = "expectForm" -> Out(Returns(p), ~p.closed /\ FormPresent(p))

(* The choices the application has at a step (at a login, among the outcomes of
   the submission). *)
StepOutcomes(s) == IF s.op = "login" THEN Alternatives ELSE {1}

SuiteInit ==
  /\ tpage = [t \in Tests |-> BlankPage]
  /\ pc = [t \in Tests |-> 1]
  /\ verdict = [t \in Tests |-> "running"]
  /\ page = FreshLoginPage
  /\ prev = FreshLoginPage
  /\ last = NoCall
  /\ cleared = FALSE
  /\ served = FALSE
  /\ fresh = FALSE
  /\ attempt = NoAttempt

(* The runner takes the next step of scenario t, in any order among the scenarios. *)
RunTest(t) ==
  /\ verdict[t] = "running"
  /\ \E o \in StepOutcomes(Scripts[t][pc[t]]) :
       LET r == RunStep(tpage[PageOf(t)], Scripts[t][pc[t]], o) IN
       /\ tpage' = [tpage EXCEPT ![PageOf(t)] = r.page]
       /\ pc' = [pc EXCEPT ![t] = IF r.ok THEN @ + 1 ELSE @]
       /\ verdict' = [verdict EXCEPT ![t] = IF ~r.ok THEN "failed"
                                             ELSE IF pc[t] = Len(Scripts[t]) THEN "passed"
                                             ELSE @]
  /\ UNCHANGED freeVars

SuiteNext == \E t \in Tests : RunTest(t)

SuiteSpec == SuiteInit /\ [][SuiteNext]_vars

(* Scenario t run alone: its page after its first n steps, and whether all of
   them went through. *)
RECURSIVE Alone(_, _)
Alone(t, n) ==
  IF n = 0 THEN [page |-> BlankPage, ok |-> TRUE]
  ELSE LET before == Alone(t, n - 1)
           s == Scripts[t][n]
           r == RunStep(before.page, s, 1)
       IN IF before.ok THEN r ELSE before

(******************************** properties *******************************)

(* How long the URL wait of isLoginSuccessful lasts on page p when it succeeds. *)
UrlWaitTime(p) == IF MatchesInventoryGlob(p.url) THEN 0 ELSE p.navIn

UrlWaitSucceeds(p) ==
  ~p.closed /\ (MatchesInventoryGlob(p.url) \/ Within(p.navIn, URL_TIMEOUT))

LogoWaitSucceeds(p) ==
  UrlWaitSucceeds(p) /\ Within(p.logoIn, UrlWaitTime(p) + LOGO_TIMEOUT)

(* C1: isLoginSuccessful() never raises to its caller; it returns true exactly
   when the wait for the inventory URL succeeds and the wait for the logo that
   follows it succeeds too, and false when either wait fails. *)
C1_IsLoginSuccessfulNeverRaises ==
  last.op = "isLoginSuccessful" =>
    /\ last.exc = "none"
    /\ last.b = (UrlWaitSucceeds(prev) /\ LogoWaitSucceeds(prev))

(* The URL wait succeeded and the logo wait then timed out: false. *)
C1_Witness ==
  /\ last.op = "isLoginSuccessful"
  /\ UrlWaitSucceeds(prev)
  /\ ~MatchesInventoryGlob(prev.url)
  /\ ~LogoWaitSucceeds(prev)
  /\ ~last.b

(* C2: getErrorMessage() returns the text of the error element once it is
   visible; if it does not become visible within the wait bound the call fails
   with a TimeoutError, which reaches the caller. *)
C2_GetErrorMessagePropagatesTimeout ==
  (last.op = "getErrorMessage" /\ ~prev.closed) =>
    IF Within(prev.errIn, DefaultTimeout)
    THEN last.exc = "none" /\ last.text = prev.errText
    ELSE last.exc = "TimeoutError" /\ last.text = <<>>

C2_Witness ==
  last.op = "getErrorMessage" /\ prev.errIn = Never /\ last.exc = "TimeoutError"

(* C3: isErrorVisible() returns true when the error element becomes visible
   within its short bound, and false, raising nothing, when the wait times out. *)
C3_IsErrorVisibleProbe ==
  (last.op = "isErrorVisible" /\ ~prev.closed) =>
    /\ last.exc = "none"
    /\ last.b = Within(prev.errIn, ERROR_PROBE_TIMEOUT)

(* An error that would have shown after the bound: the probe gave false. *)
C3_Witness ==
  /\ last.op = "isErrorVisible"
  /\ ~prev.closed
  /\ Within(prev.errIn, DefaultTimeout)
  /\ ~Within(prev.errIn, ERROR_PROBE_TIMEOUT)
  /\ ~last.b
  /\ last.exc = "none"

(* C4, as claimed: a failure of the visibility wait of isErrorVisible() that is
   not a timeout (the page has been closed) reaches the caller. *)
C4_NonTimeoutFailurePropagates ==
  (last.op = "isErrorVisible" /\ prev.closed) => last.exc # "none"

(* C4, amended: isErrorVisible() swallows every failure of its visibility wait,
   not the timeout alone: on a closed page too it returns false and raises
   nothing. *)
C4_IsErrorVisibleSwallowsEveryFailure ==
  last.op = "isErrorVisible" =>
    /\ last.exc = "none"
    /\ prev.closed => ~last.b

C4_Witness == last.op = "isErrorVisible" /\ prev.closed /\ ~last.b /\ last.exc = "none"

(* C5, as claimed: closeErrorMessage() clicks the dismiss control if and only if
   an error is visible when it is called. *)
C5_ClicksIffVisibleNow ==
  (last.op = "closeErrorMessage" /\ ~prev.closed) => (last.clicked = (prev.errIn = 0))

(* C5, amended: closeErrorMessage() clicks the dismiss control if and only if
   the error is visible within the bound of the isErrorVisible() probe (visible
   at the call, or showing during the wait).  Otherwise it is a no-op: nothing
   changes but the time the probe took, and nothing is raised.  After a click the
   error is hidden, and a further call is a no-op that leaves it hidden. *)
C5_CloseErrorMessageIdempotent ==
  last.op = "closeErrorMessage" =>
    /\ last.exc = "none"
    /\ last.clicked = (~prev.closed /\ Within(prev.errIn, ERROR_PROBE_TIMEOUT))
    /\ ~last.clicked =>
         page = IF prev.closed THEN prev ELSE Elapse(prev, ERROR_PROBE_TIMEOUT)
    /\ last.clicked =>
         /\ page.errIn = Never
         /\ LET again == closeErrorMessage(page) IN
            /\ ~again.clicked
            /\ again.exc = "none"
            /\ again.page = Elapse(page, ERROR_PROBE_TIMEOUT)
            /\ again.page.errIn = Never

(* The error was not visible at the call, showed during the probe, and was
   dismissed. *)
C5_Witness ==
  /\ last.op = "closeErrorMessage"
  /\ last.clicked
  /\ prev.errIn > 0
  /\ page.errIn = Never

NoSuccessPairs ==
  {LOCKED_USER, INVALID_USER,
   [username |-> VALID_USER.username, password |-> INVALID_PASSWORD]}

(* C6: after login(u, p) from a freshly navigated login page with the locked
   user, the unknown user or the valid user with the wrong password, the URL does
   not become the inventory URL, isLoginSuccessful() returns false and
   isOnLoginPage() returns true. *)
C6_NoSuccessStaysOnLoginPage ==
  attempt \in NoSuccessPairs =>
    /\ ~MatchesInventoryGlob(page.url)
    /\ last.op = "isLoginSuccessful" => (~last.b /\ last.exc = "none")
    /\ last.op = "isOnLoginPage" => (last.b /\ last.exc = "none")

C6_Witness ==
  /\ attempt \in NoSuccessPairs
  /\ last.op = "isOnLoginPage"
  /\ last.b
  /\ page.errIn = 0

(* C7: after login(standard_user, secret_sauce) from a freshly navigated login
   page, isLoginSuccessful() returns true, the logo is visible and the URL ends
   in inventory.html. *)
C7_ValidLoginSucceeds ==
  attempt = VALID_USER =>
    /\ page.url[Len(page.url)] = "inventory.html"
    /\ page.logoIn = 0
    /\ last.op = "isLoginSuccessful" => (last.b /\ last.exc = "none")

C7_Witness == attempt = VALID_USER /\ last.op = "isLoginSuccessful" /\ last.b

(* The failure kind the catalog names for an attempt, "none" where it names none. *)
FailureKind(a) ==
  IF a.username = "" /\ a.password # "" /\ a.password # "-" THEN "MISSING_USERNAME"
  ELSE IF a.username # "" /\ a.username # "-" /\ a.password = "" THEN "MISSING_PASSWORD"
  ELSE IF a = LOCKED_USER THEN "LOCKED_USER"
  ELSE IF a.username = INVALID_USER.username /\ a.password # "" THEN "INVALID_CREDENTIALS"
  ELSE IF a.username = VALID_USER.username /\ a.password = INVALID_PASSWORD
       THEN "INVALID_CREDENTIALS"
  ELSE "none"

(* C8: after a failed login attempt from a freshly navigated login page, the
   text getErrorMessage() returns contains the catalog string of the failure:
   LOCKED_USER for the locked user, INVALID_CREDENTIALS for an unknown user or a
   wrong password, MISSING_USERNAME for an empty username, MISSING_PASSWORD for
   an empty password. *)
C8_ErrorTextContainsCatalogString ==
  (last.op = "getErrorMessage" /\ FailureKind(attempt) # "none") =>
    /\ last.exc = "none"
    /\ Contains(last.text, ERROR_MESSAGES[FailureKind(attempt)])

C8_Witness ==
  /\ last.op = "getErrorMessage"
  /\ attempt = LOCKED_USER
  /\ Contains(last.text, <<"Sorry,", "this", "user", "has", "been", "locked", "out.">>)

(* C9: whatever the two fields held before, clearInputs() followed by
   login(u, p) submits exactly u and p and leaves the page as login(u, p) on the
   untouched form of a freshly served login page leaves it. *)
C9_ClearThenLoginAsFresh ==
  (last.op = "login" /\ last.exc = "none" /\ last.afterClear /\ served) =>
    /\ page.submitted = <<last.username, last.password>>
    /\ \E o \in Alternatives :
         page = login(FreshLoginPage, last.username, last.password, o).page

(* The fields held an earlier, different submission before they were cleared. *)
C9_Witness ==
  /\ last.op = "login"
  /\ last.exc = "none"
  /\ last.afterClear
  /\ served
  /\ prev.submitted # <<>>
  /\ prev.submitted[1] # last.username
  /\ prev.submitted[2] # last.password
  /\ prev.username = ""
  /\ prev.password = ""

(* C10: under any interleaving of the scenarios, each scenario is where it would
   be had it run alone: the same page after the same steps, and the same
   verdict. *)
C10_ScenariosIndependent ==
  \A t \in Tests :
    LET done == IF verdict[t] = "passed" THEN Len(Scripts[t]) ELSE pc[t] - 1 IN
    /\ tpage[t] = Alone(t, done).page
    /\ Alone(t, done).ok
    /\ verdict[t] = "passed" => pc[t] = Len(Scripts[t]) + 1
    /\ verdict[t] = "failed" => ~Alone(t, pc[t]).ok

(* Scenarios interleaved: one has passed while two others are half way. *)
C10_Witness ==
  /\ verdict[1] = "passed"
  /\ verdict[2] = "running" /\ pc[2] = 3
  /\ verdict[3] = "running" /\ pc[3] = 4
  /\ verdict[4] = "passed"

====
